---- MODULE Spec2Model ----
(***************************************************************************)
(* Atheron-AI: the chat route (POST, getSpaceContext) and the provider     *)
(* clients of lib/space-apis.ts (eleven clients, getSpaceDataSummary).     *)
(*                                                                         *)
(* JavaScript values are tagged records; a template string is a sequence  *)
(* of tokens; a promise is a slot with a stage.  The event loop is         *)
(* run-to-completion: the continuation of a client runs only while its     *)
(* caller is suspended on an await.                                        *)
(***************************************************************************)
EXTENDS Integers, Sequences, FiniteSets, TLC

\* Every record constructor below lists its fields in the order in which the
\* field names first occur in this module.

\* ------------------------------------------------------------------ bounds
MaxLaunches == 4        \* longest list an upstream launch endpoint returns
MaxLimit == 4           \* largest limit argument of a direct client call
MaxCatalog == 1         \* longest list an agency catalog endpoint returns

\* --------------------------------------------------------- program constants
CONTEXT_UPCOMING_LIMIT == 3     \* getUpcomingSpaceXLaunches(3)

Min(a, b) == IF a < b THEN a ELSE b
Max(a, b) == IF a > b THEN a ELSE b

\* ------------------------------------------------------------- JS values
Null == [t |-> "null"]
Undefined == [t |-> "undefined"]
Num == [t |-> "num"]                       \* some finite non-zero number
Bool(b) == [b |-> b, t |-> "bool"]
Str(s) == [t |-> "str", items |-> s]       \* a string, as its characters
List(s) == [t |-> "list", items |-> s]
Obj(f) == [t |-> "obj", f |-> f]           \* f: record of the own properties
Throw == [t |-> "throw"]                   \* an exception instead of a value
EmptyList == List(<<>>)

\* if (v), v || w
Truthy(v) ==
    CASE v.t \in {"null", "undefined", "throw"} -> FALSE
      [] v.t = "bool" -> v.b
      [] v.t = "str" -> Len(v.items) > 0
      [] OTHER -> TRUE

\* v.k for a v that is neither null nor undefined
Get(v, k) == IF v.t = "obj" /\ k \in DOMAIN v.f THEN v.f[k] ELSE Undefined

\* Array.prototype.slice / String.prototype.slice index normalisation
JsIndex(k, len) == IF k < 0 THEN Max(len + k, 0) ELSE Min(k, len)

JsSliceIgnoresEnd(s, start, end) ==
    SubSeq(s, JsIndex(start, Len(s)) + 1, Len(s))
JsSlice(s, start, end) ==
    LET from == JsIndex(start, Len(s))
        to == JsIndex(end, Len(s))
    IN  IF from >= to THEN <<>> ELSE SubSeq(s, from + 1, to)

\* slice(start) with the end omitted.  slice(-0) is slice(0).
JsSliceFrom(s, start) == JsSlice(s, start, Len(s))

JsReverse(s) == [i \in 1..Len(s) |-> s[Len(s) + 1 - i]]

\* ------------------------------------------------------- upstream payloads
GoodPosition ==
    Obj([sataltitude |-> Num, satlatitude |-> Num, satlongitude |-> Num,
         timestamp |-> Num])
\* a 2xx position object without a numeric latitude
BadPosition ==
    Obj([sataltitude |-> Num, satlongitude |-> Num, timestamp |-> Num])

PositionPayloads ==
    { Obj([info |-> Num]),
      Obj([info |-> Num, positions |-> EmptyList]),
      Obj([info |-> Num, positions |-> List(<<GoodPosition>>)]),
      Obj([info |-> Num, positions |-> List(<<BadPosition>>)]) }

AbovePayloads ==
    { Obj([info |-> Num, above |-> EmptyList]) }

Launch(n) == Obj([flight_number |-> n])
LaunchWith(n, s) == Obj([flight_number |-> n, success |-> s])

LatestPayloads ==
    { LaunchWith(1, s) : s \in {Null, Bool(TRUE), Bool(FALSE)} }
        \cup { Launch(1) }

\* launches 1..n in ascending date order
LaunchList(n) == [i \in 1..n |-> Launch(i)]

LaunchListPayloads ==
    { List(LaunchList(n)) : n \in 0..MaxLaunches }
        \cup { Obj([error |-> Num]), Str(<<"c", "c">>) }

RocketPayloads == { List(<<>>), List(<<Obj([name |-> Num])>>) }

CatalogList(n) == [i \in 1..n |-> Obj([id |-> i])]

SpacecraftPayloads ==
    { Obj([spacecrafts |-> List(CatalogList(n))]) : n \in 0..MaxCatalog }
        \cup { Obj([error |-> Num]), Null }
LauncherPayloads ==
    { Obj([launchers |-> List(CatalogList(n))]) : n \in 0..MaxCatalog }
        \cup { Obj([error |-> Num]), Null }
CentrePayloads ==
    { Obj([centres |-> List(CatalogList(n))]) : n \in 0..MaxCatalog }
        \cup { Obj([error |-> Num]), Null }

ApodPayloads == { Obj([date |-> Num, title |-> Num]) }

\* ---------------------------------------------------------------- clients
Clients ==
    { "getSatellitePosition", "getSatellitesAbove", "getISSPosition",
      "getLatestSpaceXLaunch", "getUpcomingSpaceXLaunches",
      "getPastSpaceXLaunches", "getSpaceXRockets", "getISROSpacecrafts",
      "getISROLaunchVehicles", "getISROCentres", "getNasaAPOD" }

\* clients that read process.env.N2YO_API_KEY (getISSPosition through
\* getSatellitePosition)
NeedsN2YOKey(c) ==
    c \in {"getSatellitePosition", "getSatellitesAbove", "getISSPosition"}

ListClients ==
    { "getUpcomingSpaceXLaunches", "getPastSpaceXLaunches", "getSpaceXRockets",
      "getISROSpacecrafts", "getISROLaunchVehicles", "getISROCentres" }

LimitClients == { "getUpcomingSpaceXLaunches", "getPastSpaceXLaunches" }

\* the value of the catch block
Sentinel(c) == IF c \in ListClients THEN EmptyList ELSE Null

Payloads(c) ==
    CASE c \in {"getSatellitePosition", "getISSPosition"} -> PositionPayloads
      [] c = "getSatellitesAbove" -> AbovePayloads
      [] c = "getLatestSpaceXLaunch" -> LatestPayloads
      [] c \in LimitClients -> LaunchListPayloads
      [] c = "getSpaceXRockets" -> RocketPayloads
      [] c = "getISROSpacecrafts" -> SpacecraftPayloads
      [] c = "getISROLaunchVehicles" -> LauncherPayloads
      [] c = "getISROCentres" -> CentrePayloads
      [] c = "getNasaAPOD" -> ApodPayloads

\* What the awaited fetch(url) can turn out to be: a rejection (network
\* failure), a response with ok = false, a 2xx response whose body is not
\* JSON, a 2xx response with a JSON body.
NoResponse == [body |-> Undefined, kind |-> "none"]
NetworkFailure == [body |-> Undefined, kind |-> "netfail"]
BadStatus == [body |-> Undefined, kind |-> "status"]
NotJson == [body |-> Undefined, kind |-> "nonjson"]
Json(b) == [body |-> b, kind |-> "json"]

TransportFailures == {NetworkFailure, BadStatus, NotJson}

Responses(c) == TransportFailures \cup { Json(b) : b \in Payloads(c) }

\* the statements between `await response.json()` and the return
Transform(c, limit, body) ==
    CASE c = "getUpcomingSpaceXLaunches" ->
            IF body.t \in {"list", "str"}
            THEN [body EXCEPT !.items = JsSlice(body.items, 0, limit)]
            ELSE Throw
      [] c = "getPastSpaceXLaunches" ->
            IF body.t = "list"
            THEN List(JsReverse(JsSliceFrom(body.items, 0 - limit)))
            ELSE Throw
      [] c = "getISROSpacecrafts" ->
            IF body.t \in {"null", "undefined"} THEN Throw
            ELSE IF Truthy(Get(body, "spacecrafts"))
                 THEN Get(body, "spacecrafts") ELSE EmptyList
      [] c = "getISROLaunchVehicles" ->
            IF body.t \in {"null", "undefined"} THEN Throw
            ELSE IF Truthy(Get(body, "launchers"))
                 THEN Get(body, "launchers") ELSE EmptyList
      [] c = "getISROCentres" ->
            IF body.t \in {"null", "undefined"} THEN Throw
            ELSE IF Truthy(Get(body, "centres"))
                 THEN Get(body, "centres") ELSE EmptyList
      [] OTHER -> body

\* the try block of a client, from the settled fetch on
TryBlockNoOkCheck(c, limit, resp) ==
    IF resp.kind = "json" THEN Transform(c, limit, resp.body)
    ELSE IF resp.kind = "status" THEN Transform(c, limit, Obj([error |-> Num]))
    ELSE Throw
TryBlock(c, limit, resp) ==
    IF resp.kind = "json" THEN Transform(c, limit, resp.body) ELSE Throw

\* the catch block: log and return the sentinel
CatchBlockRethrows(c, r) == r
CatchBlock(c, r) == IF r = Throw THEN Sentinel(c) ELSE r

\* result?.positions?.[0] || null
FirstPositionWhole(result) == result
FirstPosition(result) ==
    LET positions == IF result.t \in {"null", "undefined"} THEN Undefined
                     ELSE Get(result, "positions")
        first == IF positions.t \in {"list", "str"} /\ Len(positions.items) > 0
                 THEN (IF positions.t = "list" THEN positions.items[1]
                       ELSE Str(<<positions.items[1]>>))
                 ELSE Undefined
    IN  IF Truthy(first) THEN first ELSE Null

\* the value (or exception) a client's promise settles with, given what its
\* fetch turned out to be; NoResponse: no fetch was made (credential absent)
ClientResult(c, limit, resp) ==
    LET inner == IF c = "getISSPosition" THEN "getSatellitePosition" ELSE c
        r == IF resp = NoResponse THEN Null
             ELSE CatchBlock(inner, TryBlock(inner, limit, resp))
    IN  IF c = "getISSPosition" /\ r # Throw THEN FirstPosition(r) ELSE r

\* Present / Absent of the spec's ProviderResult
Present(v) ==
    \/ v.t \in {"obj", "num", "bool"}
    \/ v.t = "list" /\ Len(v.items) > 0

\* --------------------------------------------------------------- rendering
\* One token of a template string.
Token(sec, n, id, txt) == [n |-> n, id |-> id, sec |-> sec, txt |-> txt]

ATHEY_SYSTEM_PROMPT == << Token("POLICY", 0, 0, "") >>

Header == Token("HEADER", 0, 0, "")

Rendered(text) == [text |-> text, threw |-> FALSE]
RenderThrew == [text |-> <<>>, threw |-> TRUE]

\* ${l.flight_number}; 0 stands for the text "undefined"
FlightNo(l) ==
    IF l.t = "obj" /\ "flight_number" \in DOMAIN l.f THEN l.f.flight_number
    ELSE 0

\* x.toFixed(..) and new Date(x * 1000).toISOString() throw unless x is a
\* number
IssSection(iss) ==
    IF \A k \in {"satlatitude", "satlongitude", "sataltitude", "timestamp"} :
           Get(iss, k) = Num
    THEN Rendered(<< Token("ISS", 0, 0, "") >>)
    ELSE RenderThrew

\* success === null ? 'Pending' : success ? 'Yes' : 'No'
SuccessText(l) ==
    IF Get(l, "success") = Null THEN "Pending"
    ELSE IF Truthy(Get(l, "success")) THEN "Yes" ELSE "No"

LatestSection(l) == Rendered(<< Token("LATEST", 0, FlightNo(l), SuccessText(l)) >>)

\* upcomingLaunches.forEach((l, i) => ...)
UpcomingSection(u) ==
    IF u.t = "list" /\ \A i \in 1..Len(u.items) :
                           u.items[i].t \notin {"null", "undefined"}
    THEN Rendered(<< Token("UPCOMING", 0, 0, "") >> \o
                  [i \in 1..Len(u.items) |->
                      Token("ITEM", i, FlightNo(u.items[i]), "")])
    ELSE RenderThrew

ApodSection(a) == Rendered(<< Token("APOD", 0, 0, "") >>)

\* .length > 0
HasLength(v) == v.t \in {"list", "str"} /\ Len(v.items) > 0

\* a statement `if (cond) context += section` after the text so far
Append2(acc, cond, section) ==
    IF acc.threw \/ ~cond THEN acc
    ELSE IF section.threw THEN RenderThrew
    ELSE Rendered(acc.text \o section.text)

\* line 25: let context = "\\n\\n## REAL-TIME SPACE DATA ...:\\n"
ContextStartEmpty == <<>>
ContextStart == << Header >>

\* lines 25-46: the body of the try block after the await, on the
\* destructured [iss, latestLaunch, upcomingLaunches, apod]
RenderContext(vals) ==
    LET c0 == Rendered(ContextStart)
        c1 == Append2(c0, Truthy(vals[1]), IssSection(vals[1]))
        c2 == Append2(c1, Truthy(vals[2]), LatestSection(vals[2]))
        c3 == Append2(c2, HasLength(vals[3]), UpcomingSection(vals[3]))
        c4 == Append2(c3, Truthy(vals[4]), ApodSection(vals[4]))
    IN  c4

\* try { ... return context } catch { return "" }
SpaceContextOf(rejected, vals) ==
    IF rejected \/ RenderContext(vals).threw THEN <<>>
    ELSE RenderContext(vals).text

\* ------------------------------------------------------------------ state
VARIABLES
    env,        \* process.env: which credentials are set
    op,         \* the entry point that is running
    pc,         \* its position
    slots,      \* the promises of the client calls it made, in call order
    next,       \* index of the next client call of the array literal
    awaiting,   \* the slots the entry point is suspended on ({}: running)
    results,    \* the array Promise.all resolves with
    ctx,        \* getSpaceContext: status and returned string
    system,     \* the system instruction streamText was started with
    streams,    \* number of streamText starts
    summary,    \* the object getSpaceDataSummary returned
    inversion   \* history: some call settled before an earlier-listed one

vars == << env, op, pc, slots, next, awaiting, results, ctx, system, streams,
           summary, inversion >>

Pending == [t |-> "pending"]

ContextProviders ==
    << "getISSPosition", "getLatestSpaceXLaunch",
       "getUpcomingSpaceXLaunches", "getNasaAPOD" >>

SummaryProviders ==
    << "getISSPosition", "getLatestSpaceXLaunch", "getUpcomingSpaceXLaunches",
       "getISROSpacecrafts", "getNasaAPOD" >>

NoSummary == [returned |-> FALSE]

NewSlot(c, limit) ==
    [limit |-> limit, resp |-> NoResponse, calls |-> 0, client |-> c,
     fetches |-> 0, key |-> "none", stage |-> "idle", value |-> Pending]

LimitOf(c) == IF c = "getUpcomingSpaceXLaunches" THEN CONTEXT_UPCOMING_LIMIT ELSE 0

SlotsFor(providers) ==
    [i \in 1..Len(providers) |-> NewSlot(providers[i], LimitOf(providers[i]))]

N == Len(slots)

Settled(i) == slots[i].stage \in {"fulfilled", "rejected"}

Init ==
    /\ env \in [N2YO_API_KEY : BOOLEAN, NASA_API_KEY : BOOLEAN]
    /\ op = "idle"
    /\ pc = "idle"
    /\ slots = <<>>
    /\ next = 1
    /\ awaiting = {}
    /\ results = <<>>
    /\ ctx = [text |-> <<>>, status |-> "none"]
    /\ system = <<>>
    /\ streams = 0
    /\ summary = NoSummary
    /\ inversion = FALSE

\* ---------------------------------------------------------------- actions
\* The synchronous part of a client call, up to its first await: return
\* null when the N2YO credential is missing, else call fetch(url).
IssueNasaKeyRequired(s) ==
    IF s.client = "getNasaAPOD" /\ ~env.NASA_API_KEY
    THEN [s EXCEPT !.stage = "fulfilled", !.calls = @ + 1, !.value = Null]
    ELSE [s EXCEPT !.stage = "fetching", !.calls = @ + 1, !.fetches = @ + 1,
                   !.key = "env"]
IssueWithoutKeyCheck(s) ==
    [s EXCEPT !.stage = "fetching", !.calls = @ + 1, !.fetches = @ + 1,
              !.key = IF NeedsN2YOKey(s.client) THEN "env"
                      ELSE IF s.client # "getNasaAPOD" THEN "none"
                      ELSE IF env.NASA_API_KEY THEN "env" ELSE "DEMO_KEY"]
Issue(s) ==
    IF NeedsN2YOKey(s.client) /\ ~env.N2YO_API_KEY
    THEN IF s.client = "getISSPosition"
         \* getISSPosition awaits the already resolved getSatellitePosition
         THEN [s EXCEPT !.stage = "ready", !.calls = @ + 1]
         ELSE [s EXCEPT !.stage = "fulfilled", !.calls = @ + 1, !.value = Null]
    ELSE [s EXCEPT !.stage = "fetching", !.calls = @ + 1, !.fetches = @ + 1,
                   !.key = IF NeedsN2YOKey(s.client) THEN "env"
                           ELSE IF s.client # "getNasaAPOD" THEN "none"
                           ELSE IF env.NASA_API_KEY THEN "env" ELSE "DEMO_KEY"]

\* The rest of a client call, resumed with what its fetch turned out to be.
SettleWithRetry(s, resp) ==
    IF resp \in TransportFailures /\ s.fetches < 2
    THEN [s EXCEPT !.stage = "fetching", !.fetches = @ + 1]
    ELSE LET v == ClientResult(s.client, s.limit, resp)
         IN  [s EXCEPT !.stage = IF v = Throw THEN "rejected" ELSE "fulfilled",
                       !.resp = resp, !.value = v]
Settle(s, resp) ==
    LET v == ClientResult(s.client, s.limit, resp)
    IN  [s EXCEPT !.stage = IF v = Throw THEN "rejected" ELSE "fulfilled",
                  !.resp = resp, !.value = v]

\* Promise.all: the value of the i-th promise goes to index i of the array
PromiseAllStoreByArrival(arr, i, v) ==
    LET free == { k \in 1..Len(arr) : arr[k] = Pending }
    IN  IF free = {} THEN arr
        ELSE [arr EXCEPT ![CHOOSE k \in free : \A m \in free : k <= m] = v]
PromiseAllStore(arr, i, v) == [arr EXCEPT ![i] = v]

\* Where the caller suspends after the i-th of n client calls: the calls of
\* the array literal are all made before the one await Promise.all([...]).
AwaitedAfterEach(i, n) == {i}
AwaitedAfter(i, n) == IF i = n THEN 1..n ELSE {}

Begin(o, p, ss) ==
    /\ op = "idle"
    /\ op' = o
    /\ pc' = p
    /\ slots' = ss
    /\ results' = [i \in 1..Len(ss) |-> Pending]
    /\ UNCHANGED << env, next, awaiting, ctx, system, streams, summary,
                    inversion >>

\* a request arrives at the route: POST runs up to `await req.json()`
StartPOST == Begin("POST", "decode", <<>>)

\* getSpaceDataSummary() is called
StartSummary == Begin("summary", "fanout", SlotsFor(SummaryProviders))

\* one client is called directly
StartClient ==
    \E c \in Clients :
        \E limit \in (IF c \in LimitClients THEN 0..MaxLimit ELSE {0}) :
            Begin("client", "fanout", << NewSlot(c, limit) >>)

\* line 97: await req.json() settles; line 100 calls getSpaceContext()
PostDecode ==
    /\ op = "POST" /\ pc = "decode"
    /\ \E ok \in BOOLEAN :
        IF ok
        THEN /\ pc' = "fanout"
             /\ slots' = SlotsFor(ContextProviders)
             /\ results' = [i \in 1..Len(ContextProviders) |-> Pending]
             /\ ctx' = [text |-> <<>>, status |-> "running"]
        ELSE /\ pc' = "rejected"
             /\ UNCHANGED << slots, results, ctx >>
    /\ UNCHANGED << env, op, next, awaiting, system, streams, summary,
                    inversion >>

\* the next element of the array literal: call the client
Invoke(i) ==
    /\ pc = "fanout"
    /\ i = next /\ i <= N
    /\ \A j \in awaiting : Settled(j)
    /\ LET s == Issue(slots[i])
       IN  /\ slots' = [slots EXCEPT ![i] = s]
           /\ results' = IF s.stage = "fulfilled"
                         THEN PromiseAllStore(results, i, s.value)
                         ELSE results
    /\ next' = i + 1
    /\ awaiting' = AwaitedAfter(i, N)
    /\ UNCHANGED << env, op, pc, ctx, system, streams, summary, inversion >>

\* the network: the fetch of call i settles
FetchSettle(i) ==
    /\ i \in 1..N
    /\ slots[i].stage = "fetching"
    /\ slots' = [slots EXCEPT ![i].stage = "ready"]
    /\ UNCHANGED << env, op, pc, next, awaiting, results, ctx, system,
                    streams, summary, inversion >>

\* the event loop resumes call i after its await; the caller is suspended
Resume(i) ==
    /\ i \in 1..N
    /\ slots[i].stage = "ready"
    /\ awaiting # {}
    /\ \E resp \in (IF slots[i].fetches = 0 THEN {NoResponse}
                    ELSE Responses(slots[i].client)) :
        LET s == Settle(slots[i], resp)
        IN  /\ slots' = [slots EXCEPT ![i] = s]
            /\ results' = IF s.stage = "fulfilled"
                          THEN PromiseAllStore(results, i, s.value)
                          ELSE results
            /\ inversion' = (inversion \/
                               (s.stage # "fetching" /\
                                \E j \in 1..(i - 1) : ~Settled(j)))
    /\ UNCHANGED << env, op, pc, next, awaiting, ctx, system, streams,
                    summary >>

\* Promise.all has settled: every promise fulfilled, or one rejected
JoinReadyAllPresent ==
    /\ pc = "fanout"
    /\ next > N
    /\ awaiting # {}
    /\ \A j \in 1..N : slots[j].stage = "fulfilled" /\ Truthy(slots[j].value)
JoinReady ==
    /\ pc = "fanout"
    /\ next > N
    /\ awaiting # {}
    /\ \/ \E j \in 1..N : slots[j].stage = "rejected"
       \/ \A j \in 1..N : slots[j].stage = "fulfilled"

AnyRejected == \E j \in 1..N : slots[j].stage = "rejected"

\* lines 18-50: getSpaceContext continues after the await and returns
CtxReturn ==
    /\ op = "POST"
    /\ JoinReady
    /\ ctx' = [text |-> SpaceContextOf(AnyRejected, results),
               status |-> "returned"]
    /\ pc' = "compose"
    /\ awaiting' = {}
    /\ UNCHANGED << env, op, slots, next, results, system, streams, summary,
                    inversion >>

\* lines 100-101: POST resumes with the context and builds the instruction
PostComposeContextFirst ==
    /\ op = "POST" /\ pc = "compose"
    /\ system' = ctx.text \o ATHEY_SYSTEM_PROMPT
    /\ pc' = "convert"
    /\ UNCHANGED << env, op, slots, next, awaiting, results, ctx, streams,
                    summary, inversion >>
PostCompose ==
    /\ op = "POST" /\ pc = "compose"
    /\ system' = ATHEY_SYSTEM_PROMPT \o ctx.text
    /\ pc' = "convert"
    /\ UNCHANGED << env, op, slots, next, awaiting, results, ctx, streams,
                    summary, inversion >>

\* line 106: await convertToModelMessages(messages)
PostConvert ==
    /\ op = "POST" /\ pc = "convert"
    /\ \E ok \in BOOLEAN : pc' = IF ok THEN "stream" ELSE "rejected"
    /\ UNCHANGED << env, op, slots, next, awaiting, results, ctx, system,
                    streams, summary, inversion >>

\* lines 103-109: streamText(...) is started and the response returned
PostStream ==
    /\ op = "POST" /\ pc = "stream"
    /\ streams' = streams + 1
    /\ \E ok \in BOOLEAN : pc' = IF ok THEN "done" ELSE "rejected"
    /\ UNCHANGED << env, op, slots, next, awaiting, results, ctx, system,
                    summary, inversion >>

\* lines 346-352: the object literal built from the destructured array
SummaryRecordCrossed(res) ==
    [iss |-> res[1], returned |-> TRUE, isroSpacecrafts |-> res[3],
     latestSpaceXLaunch |-> res[2], nasaAPOD |-> res[5],
     upcomingSpaceXLaunches |-> res[4]]
SummaryRecord(res) ==
    [iss |-> res[1], returned |-> TRUE, isroSpacecrafts |-> res[4],
     latestSpaceXLaunch |-> res[2], nasaAPOD |-> res[5],
     upcomingSpaceXLaunches |-> res[3]]

\* lines 337-352: getSpaceDataSummary continues after the await
SummaryReturn ==
    /\ op = "summary"
    /\ JoinReady
    /\ IF AnyRejected
       THEN pc' = "rejected" /\ UNCHANGED summary
       ELSE /\ pc' = "done"
            /\ summary' = SummaryRecord(results)
    /\ awaiting' = {}
    /\ UNCHANGED << env, op, slots, next, results, ctx, system, streams,
                    inversion >>

\* the caller of a direct client call resumes with its result
ClientReturn ==
    /\ op = "client"
    /\ JoinReady
    /\ pc' = IF AnyRejected THEN "rejected" ELSE "done"
    /\ awaiting' = {}
    /\ UNCHANGED << env, op, slots, next, results, ctx, system, streams,
                    summary, inversion >>

MaxSlots == Len(SummaryProviders)

Next ==
    \/ StartPOST
    \/ StartSummary
    \/ StartClient
    \/ PostDecode
    \/ \E i \in 1..MaxSlots : Invoke(i)
    \/ \E i \in 1..MaxSlots : FetchSettle(i)
    \/ \E i \in 1..MaxSlots : Resume(i)
    \/ CtxReturn
    \/ PostCompose
    \/ PostConvert
    \/ PostStream
    \/ SummaryReturn
    \/ ClientReturn

Spec == Init /\ [][Next]_vars

\* the chat route alone, with the event loop running whatever is runnable;
\* nothing obliges the network to answer
NextPost ==
    \/ StartPOST
    \/ PostDecode
    \/ \E i \in 1..MaxSlots : Invoke(i)
    \/ \E i \in 1..MaxSlots : FetchSettle(i)
    \/ \E i \in 1..MaxSlots : Resume(i)
    \/ CtxReturn
    \/ PostCompose
    \/ PostConvert
    \/ PostStream

EventLoop ==
    \/ StartPOST
    \/ PostDecode
    \/ \E i \in 1..MaxSlots : Invoke(i)
    \/ \E i \in 1..MaxSlots : Resume(i)
    \/ CtxReturn
    \/ PostCompose
    \/ PostConvert
    \/ PostStream

FairPost == Init /\ [][NextPost]_vars /\ WF_vars(EventLoop)

\* the chat route with a fair event loop and a network that answers every
\* request sooner or later
LivePost ==
    /\ Init /\ [][NextPost]_vars
    /\ WF_vars(EventLoop)
    /\ \A i \in 1..MaxSlots : WF_vars(FetchSettle(i))

\* ------------------------------------------------------------- properties
Val(i) == slots[i].value

CtxReturned == op = "POST" /\ ctx.status = "returned"

SectionName == << "ISS", "LATEST", "UPCOMING", "APOD" >>

Rank(sec) == CHOOSE k \in 1..4 : SectionName[k] = sec

\* the provider sections of a context string
SectionsOf(text) ==
    { text[k].sec : k \in 1..Len(text) } \cap
        { SectionName[k] : k \in 1..4 }

\* the payload conforms to the interface space-apis.ts declares for it
WellFormed(c, body) ==
    CASE c = "getISSPosition" ->
            /\ body.t = "obj" /\ "positions" \in DOMAIN body.f
            /\ body.f.positions.t = "list"
            /\ \A k \in 1..Len(body.f.positions.items) :
                   body.f.positions.items[k] = GoodPosition
      [] c = "getLatestSpaceXLaunch" ->
            body.t = "obj" /\ "success" \in DOMAIN body.f
      [] c = "getUpcomingSpaceXLaunches" -> body.t = "list"
      [] OTHER -> body.t = "obj"

\* call i got a well-formed payload or failed at transport level (or had no
\* credential to call with)
CleanOutcome(i) ==
    \/ slots[i].resp \in TransportFailures \cup {NoResponse}
    \/ /\ slots[i].resp.kind = "json"
       /\ WellFormed(slots[i].client, slots[i].resp.body)

PresentSections == { SectionName[i] : i \in { k \in 1..4 : Present(Val(k)) } }

\* C1: best-effort union.  When every provider of getSpaceContext returned a
\* well-formed payload or failed at transport level, getSpaceContext returns
\* (POST never rejects while it runs), not by its catch path, and the
\* context has a section for exactly the providers whose result is Present.
C1_BestEffortUnion ==
    /\ (op = "POST" /\ pc = "rejected") => ctx.status # "running"
    /\ (CtxReturned /\ \A i \in 1..N : CleanOutcome(i)) =>
           /\ ctx.text # <<>>
           /\ SectionsOf(ctx.text) = PresentSections

C1_Witness ==
    /\ CtxReturned
    /\ \A i \in 1..N : CleanOutcome(i)
    /\ \E i \in 1..N : slots[i].resp \in TransportFailures
    /\ \E i \in 1..N : Present(Val(i))
    /\ \E i \in 1..N : ~Present(Val(i))

\* C2: a provider failure does not abort the aggregation, malformed 2xx
\* payloads included: the returned context is empty only if every provider
\* is Absent, and a Present provider with a well-formed payload has its
\* section in the context.
C2_NoAbort ==
    CtxReturned =>
        /\ ctx.text = <<>> => \A i \in 1..N : ~Present(Val(i))
        /\ \A i \in 1..N :
               (Present(Val(i)) /\ CleanOutcome(i)) =>
                   SectionName[i] \in SectionsOf(ctx.text)

\* C3: when every provider is Absent, getSpaceContext returns the empty
\* context and the instruction given to streamText is exactly
\* ATHEY_SYSTEM_PROMPT.
C3_EmptyWhenAllAbsent ==
    (CtxReturned /\ \A i \in 1..N : ~Present(Val(i))) =>
        /\ ctx.text = <<>>
        /\ streams > 0 => system = ATHEY_SYSTEM_PROMPT

\* C4: render order is fixed by priority.  Whatever order the four fetches
\* completed in, the sections of the returned context are in the order ISS,
\* latest launch, upcoming launches, daily image, and the context is the
\* rendering of the providers' results alone, so that two runs with the
\* same results return the same string.
C4_PriorityOrder ==
    CtxReturned =>
        /\ \A k, l \in 1..Len(ctx.text) :
               (k < l /\ {ctx.text[k].sec, ctx.text[l].sec} \subseteq
                             { SectionName[m] : m \in 1..4 }) =>
                   Rank(ctx.text[k].sec) < Rank(ctx.text[l].sec)
        /\ ctx.text = SpaceContextOf(FALSE, [i \in 1..N |-> Val(i)])

C4_Witness ==
    /\ CtxReturned
    /\ inversion
    /\ slots[4].resp.kind = "json" /\ slots[1].resp.kind = "json"
    /\ Cardinality(SectionsOf(ctx.text)) >= 3

\* a sibling has completed with a Present result while another provider's
\* fetch is still outstanding
HungWithSibling ==
    /\ op = "POST" /\ pc = "fanout"
    /\ \E i, j \in 1..N :
           /\ slots[i].stage = "fulfilled" /\ Present(Val(i))
           /\ slots[j].stage = "fetching"

\* C5: per-call deadline.  If the fetch of one provider never settles while
\* a sibling has completed with a Present result, getSpaceContext still
\* eventually returns.
C5_DeadlineReturns == (<>[]HungWithSibling) => <>CtxReturned

\* C6: every provider client turns network failure, non-2xx status and a
\* non-JSON body into its Absent sentinel (null, or [] for the list
\* clients): its promise never rejects and no caller rejects because of it.
C6_FailuresAreAbsent ==
    /\ \A i \in 1..N :
           /\ slots[i].stage # "rejected"
           /\ (slots[i].stage = "fulfilled" /\
               slots[i].resp \in TransportFailures) =>
                   /\ Val(i) = Sentinel(slots[i].client)
                   /\ ~Present(Val(i))
    /\ (op \in {"client", "summary"}) => pc # "rejected"
    /\ (op = "POST" /\ pc = "rejected") => ctx.status # "running"

C6_Witness ==
    /\ op = "client" /\ pc = "done"
    /\ slots[1].client = "getISROCentres"
    /\ slots[1].resp = NotJson
    /\ Val(1) = EmptyList

\* C7: without N2YO_API_KEY the three satellite clients return null without
\* throwing, and getSpaceContext and getSpaceDataSummary still fetch the
\* other providers and carry their Present results.
C7_MissingCredential ==
    ~env.N2YO_API_KEY =>
        /\ \A i \in 1..N :
               (NeedsN2YOKey(slots[i].client) /\ Settled(i)) =>
                   (slots[i].stage = "fulfilled" /\ Val(i) = Null)
        /\ CtxReturned =>
               \A i \in 2..N :
                   /\ slots[i].fetches = 1
                   /\ Present(Val(i)) => SectionName[i] \in SectionsOf(ctx.text)
        /\ (op = "summary" /\ Settled(1)) => pc # "rejected"
        /\ summary.returned =>
               /\ \A i \in 2..N : slots[i].fetches = 1
               /\ summary.iss = Null
               /\ summary.latestSpaceXLaunch = Val(2)
               /\ summary.upcomingSpaceXLaunches = Val(3)
               /\ summary.isroSpacecrafts = Val(4)
               /\ summary.nasaAPOD = Val(5)

\* call j has run past its await: the response of its fetch was consumed
Consumed(j) == Settled(j) /\ slots[j].resp # NoResponse

\* call j needs no request: its credential is missing
NoRequest(j) == NeedsN2YOKey(slots[j].client) /\ ~env.N2YO_API_KEY

\* C8: concurrent fan-out.  In getSpaceContext and getSpaceDataSummary, by
\* the time the response of any provider is consumed every selected provider
\* has been called and has issued its request (a provider without its
\* credential has none to issue).
C8_FanOut ==
    (op \in {"POST", "summary"} /\ \E j \in 1..N : Consumed(j)) =>
        \A i \in 1..N :
            /\ slots[i].calls = 1
            /\ NoRequest(i) \/ slots[i].fetches = 1

C8_Witness ==
    /\ op = "summary"
    /\ env.N2YO_API_KEY
    /\ Consumed(5)
    /\ \A i \in 1..4 : slots[i].stage = "fetching"

\* C9 as stated: every client call makes exactly one network call, whatever
\* the configuration.
C9_ExactlyOneFetch ==
    \A i \in 1..N : Settled(i) => slots[i].fetches = 1

\* C9, amended: a client call makes at most one network call: none when the
\* client needs N2YO_API_KEY and it is not set, exactly one otherwise,
\* whatever the outcome of that call.
C9_OneFetchUnlessNoKey ==
    \A i \in 1..N :
        /\ slots[i].fetches <= 1
        /\ slots[i].stage # "idle" =>
               slots[i].fetches = IF NoRequest(i) THEN 0 ELSE 1

C9_Witness ==
    /\ op = "client" /\ pc = "done"
    /\ slots[1].client = "getSatellitesAbove"
    /\ ~env.N2YO_API_KEY
    /\ slots[1].fetches = 0

\* C10: no retry.  During one POST each of the four providers is called
\* exactly once, no call issues a second fetch after a failure, and
\* streamText is started at most once.
C10_NoRetry ==
    op = "POST" =>
        /\ streams <= 1
        /\ \A i \in 1..N : slots[i].calls <= 1 /\ slots[i].fetches <= 1
        /\ pc \in {"compose", "convert", "stream", "done"} =>
               (N = 4 /\ \A i \in 1..N : slots[i].calls = 1)
        /\ pc = "done" => streams = 1

C10_Witness ==
    /\ op = "POST" /\ pc = "done"
    /\ \E i \in 1..N : slots[i].resp \in TransportFailures
    /\ \A i \in 2..N : slots[i].fetches = 1

\* a completed direct call of client c that got the JSON list `upstream`
DirectCall(c) ==
    /\ op = "client" /\ pc = "done"
    /\ slots[1].client = c
    /\ slots[1].resp.kind = "json"
    /\ slots[1].resp.body.t = "list"

\* the last Min(limit, n) elements of s, most recent first
LastReversed(s, limit) ==
    [k \in 1..Min(limit, Len(s)) |-> s[Len(s) + 1 - k]]

\* C11: getPastSpaceXLaunches(limit) caps at the limit, most recent first.
\* For an upstream list of n launches and a limit >= 0 the result is the
\* last min(limit, n) upstream elements in reverse order.
C11_PastCapped ==
    DirectCall("getPastSpaceXLaunches") =>
        Val(1) = List(LastReversed(slots[1].resp.body.items, slots[1].limit))

\* C12: getUpcomingSpaceXLaunches(limit) truncates to the limit.  For an
\* upstream list of n launches and a limit >= 0 the result is the first
\* min(limit, n) upstream elements in upstream order, and a returned context
\* renders at most 3 upcoming launches.
C12_UpcomingTruncated ==
    /\ DirectCall("getUpcomingSpaceXLaunches") =>
           Val(1) = List(SubSeq(slots[1].resp.body.items, 1,
                                Min(slots[1].limit,
                                    Len(slots[1].resp.body.items))))
    /\ CtxReturned =>
           /\ Cardinality({ k \in 1..Len(ctx.text) :
                               ctx.text[k].sec = "ITEM" }) <= 3
           /\ (slots[3].resp.kind = "json" /\ slots[3].resp.body.t = "list") =>
                  Val(3) = List(SubSeq(slots[3].resp.body.items, 1,
                                       Min(3, Len(slots[3].resp.body.items))))

C12_Witness ==
    /\ CtxReturned
    /\ slots[3].resp.kind = "json" /\ slots[3].resp.body.t = "list"
    /\ Len(slots[3].resp.body.items) = 4
    /\ Cardinality({ k \in 1..Len(ctx.text) : ctx.text[k].sec = "ITEM" }) = 3

\* the outcome text of the latest-launch section of a context
OutcomeTexts(text) ==
    { text[k].txt : k \in { j \in 1..Len(text) : text[j].sec = "LATEST" } }

\* C13: the launch outcome is tri-state.  The latest-launch section renders
\* Pending whenever the outcome field of the launch is null or missing, Yes
\* only when it is true and No only when it is false.
C13_TriState ==
    (CtxReturned /\ "LATEST" \in SectionsOf(ctx.text)) =>
        OutcomeTexts(ctx.text) =
            { IF Get(Val(2), "success") \in {Null, Undefined} THEN "Pending"
              ELSE IF Get(Val(2), "success") = Bool(TRUE) THEN "Yes"
              ELSE "No" }

\* POST has ended: it returned its response or rejected
PostEnded == op = "POST" /\ pc \in {"done", "rejected"}

\* C14: the aggregation does not depend on the decoding of the request.
\* The provider fan-out of a POST is started whether or not the decoding of
\* the request body succeeded: a POST that has ended has called its four
\* providers.
C14_FanOutIndependentOfDecode ==
    PostEnded =>
        /\ N = Len(ContextProviders)
        /\ \A i \in 1..N : slots[i].calls = 1

\* C15: getSpaceDataSummary writes each result into its own slot.  Whatever
\* order the five fetches completed in and whichever failed, the call does
\* not reject, the returned record has the five fields, each field holds
\* the result of its own provider, and a failed provider's field holds its
\* Absent sentinel.
C15_DisjointSlots ==
    /\ op = "summary" => pc # "rejected"
    /\ (op = "summary" /\ pc = "done") => summary.returned
    /\ summary.returned =>
           /\ DOMAIN summary =
                  {"returned", "iss", "latestSpaceXLaunch",
                   "upcomingSpaceXLaunches", "isroSpacecrafts", "nasaAPOD"}
           /\ summary.iss = Val(1)
           /\ summary.latestSpaceXLaunch = Val(2)
           /\ summary.upcomingSpaceXLaunches = Val(3)
           /\ summary.isroSpacecrafts = Val(4)
           /\ summary.nasaAPOD = Val(5)
           /\ \A i \in 1..N :
                  slots[i].resp \in TransportFailures =>
                      Val(i) = Sentinel(slots[i].client)

C15_Witness ==
    /\ summary.returned
    /\ inversion
    /\ slots[2].resp \in TransportFailures
    /\ slots[4].resp = NotJson
    /\ Present(Val(1)) /\ Present(Val(3)) /\ Present(Val(5))

\* C16: without NASA_API_KEY getNasaAPOD is not Absent for that reason.  It
\* still makes its network call, with the demo credential, and its result is
\* Present exactly when that call succeeded.
C16_DemoKeyFallback ==
    \A i \in 1..N :
        (slots[i].client = "getNasaAPOD" /\ ~env.NASA_API_KEY) =>
            /\ slots[i].stage # "idle" =>
                   (slots[i].fetches = 1 /\ slots[i].key = "DEMO_KEY")
            /\ Settled(i) =>
                   /\ slots[i].stage = "fulfilled"
                   /\ Present(Val(i)) <=> slots[i].resp.kind = "json"

C16_Witness ==
    /\ op = "client" /\ pc = "done"
    /\ slots[1].client = "getNasaAPOD"
    /\ ~env.NASA_API_KEY
    /\ slots[1].key = "DEMO_KEY"
    /\ Present(Val(1))

\* C17: pipeline ordering in POST.  streamText is never started before
\* getSpaceContext has returned, and the system instruction it is started
\* with is the unmodified ATHEY_SYSTEM_PROMPT followed by exactly the string
\* getSpaceContext returned for the request.
C17_PipelineOrder ==
    /\ (op = "POST" /\ pc \in {"decode", "fanout"}) =>
           (streams = 0 /\ system = <<>>)
    /\ streams > 0 =>
           /\ ctx.status = "returned"
           /\ system = ATHEY_SYSTEM_PROMPT \o ctx.text
           /\ SubSeq(system, 1, Len(ATHEY_SYSTEM_PROMPT)) = ATHEY_SYSTEM_PROMPT

C17_Witness ==
    /\ op = "POST" /\ pc = "done"
    /\ streams = 1
    /\ Cardinality(SectionsOf(ctx.text)) >= 2

\* C18: the string getSpaceContext returns is either empty, and then only by
\* its catch path, or begins with the REAL-TIME SPACE DATA header, which
\* occurs once; no provider section appears without the header before it.
C18_HeaderFirst ==
    CtxReturned =>
        /\ ctx.text = <<>> <=> (AnyRejected \/ RenderContext(results).threw)
        /\ ctx.text # <<>> =>
               /\ ctx.text[1] = Header
               /\ \A k \in 2..Len(ctx.text) : ctx.text[k] # Header
        /\ SectionsOf(ctx.text) # {} => ctx.text[1] = Header

C18_Witness ==
    /\ CtxReturned
    /\ ctx.text # <<>>
    /\ SectionsOf(ctx.text) = {"LATEST", "APOD"}

\* the response of call i is a JSON object with a non-empty positions list
HasPositions(i) ==
    /\ slots[i].resp.kind = "json"
    /\ Get(slots[i].resp.body, "positions").t = "list"
    /\ Len(Get(slots[i].resp.body, "positions").items) > 0

\* C19: getISSPosition is Present exactly when getSatellitePosition returned
\* a non-null result whose positions list exists and is non-empty, and then
\* returns the first element of that list; in every other case (null result,
\* positions missing, empty list) it returns null without throwing.
C19_FirstPositionOrNull ==
    \A i \in 1..N :
        (slots[i].client = "getISSPosition" /\ Settled(i)) =>
            /\ slots[i].stage = "fulfilled"
            /\ Present(Val(i)) <=> HasPositions(i)
            /\ HasPositions(i) =>
                   Val(i) = Get(slots[i].resp.body, "positions").items[1]
            /\ ~HasPositions(i) => Val(i) = Null

C19_Witness ==
    /\ op = "client" /\ pc = "done"
    /\ slots[1].client = "getISSPosition"
    /\ HasPositions(1)
    /\ Val(1) = GoodPosition

\* the request body was decoded: getSpaceContext is running
Decoded == op = "POST" /\ pc = "fanout"

\* streamText has been started
Streaming == op = "POST" /\ streams > 0

\* convertToModelMessages rejected: POST ended after the context returned
\* and before streamText
ConvertFailed ==
    op = "POST" /\ pc = "rejected" /\ ctx.status = "returned" /\ streams = 0

\* C20 as stated: when every fetch eventually settles, getSpaceContext
\* eventually returns and a POST whose body was decoded eventually starts
\* streamText, whatever the providers' outcomes.
C20_EventuallyStreams ==
    /\ Decoded ~> CtxReturned
    /\ Decoded ~> Streaming

\* C20, amended: when every fetch eventually settles, getSpaceContext
\* eventually returns, and a POST whose body was decoded eventually starts
\* streamText unless convertToModelMessages rejects the decoded messages.
C20_EventuallyStreamsIfConverted ==
    /\ Decoded ~> CtxReturned
    /\ Decoded ~> (Streaming \/ ConvertFailed)

C20_Witness ==
    /\ Streaming
    /\ pc = "done"
    /\ \E i \in 1..N : slots[i].resp \in TransportFailures
    /\ \E i \in 1..N : slots[i].resp.kind = "json"
====
